---- MODULE Spec2Model ----
(***************************************************************************)
(* Model of oblivion-rust's Session (src/src/models/session.rs): the       *)
(* handshake of two paired sessions, the framed send/recv channel and the  *)
(* close / closed-flag lifecycle.                                          *)
(*                                                                         *)
(* Two Session objects, "ini" (built by new_with_header) and "rsp" (built  *)
(* by new), hold the two ends of one connection.  Every .await of the      *)
(* source is one step of the calling task, so calls of different tasks     *)
(* interleave at the awaits.  Socket, OKE, OSC, OED and the request parser *)
(* are collaborators whose code is outside session.rs; they are modelled   *)
(* from their interface.                                                   *)
(***************************************************************************)
EXTENDS Integers, Sequences, FiniteSets, TLC

\* ------------------------------------------------------------------ bounds
\* Capacity of one direction of the connection, in packets.
MaxWire == 3
\* Number of calls (handshake, send, recv, close, raw frame) made on the two
\* Sessions together, when callers are free to call anything in any order.
MaxOps == 4
\* The same, for a pair of callers that follow the protocol.
MaxPairOps == 6
\* The same, when one of the two Sessions is shared by two tasks.
MaxConcOps == 6

\* ------------------------------------------------------------- input sets
Sessions == {"ini", "rsp"}
Tasks == {"t1", "t2"}
Peer(s) == IF s = "ini" THEN "rsp" ELSE "ini"

NoHeader == "None"
GoodHeader == "GET /resource"
BadHeader == "garbage"
Headers == {GoodHeader, BadHeader}
\* handshake's flag is a u8: 0, 1 and a representative of "any other".
HandshakeFlags == {0, 1, 2}
Salts == {"s1", "s2"}
\* The (payload, status_code) arguments of send.  status_code is a u32; 1 is
\* the value recv treats as terminal when it shows up as the first marker.
Messages == {<<"x", 200>>, <<"y", 1>>}
NoData == "None"

\* ------------------------------------------------------------------ state
VARIABLES
    unsafe,        \* build: cfg(feature = "unsafe")
    header,        \* Session.header        (NoHeader = Option::None)
    private_key,   \* Session.private_key   (TRUE = Some / usable)
    aes_key,       \* Session.aes_key       (NoKey = Option::None)
    request,       \* Session.request       (NoRequest = Option::None)
    closed,        \* Session.closed        (the RwLock<bool>)
    sock_open,     \* the Session's Socket is not shut down
    broken,        \* the transport has failed
    wire,          \* wire[s]: packets sent to s and not yet read by s
    pc,            \* pc[s][t]: the await task t of Session s is at
    loc,           \* loc[s][t]: locals of the call task t is in
    ret,           \* ret[s][t]: what the task's last call returned
    ops,           \* ops[s]: calls made on Session s so far
    hs,            \* hs[s]: state of the latest handshake(0|1) call on s
    key_uses,      \* key_uses[s]: key exchanges built on s's private key
    established,   \* established[s]: some handshake call on s returned Ok
    closes,        \* closes[s]: close() calls on s that have returned
    sent,          \* sent[s]: (payload, code) of the messages s has sent in
                   \* full that are on the wire and not yet received
    io             \* io[s][t]: the call task t made last on Session s and the
                   \* socket operations that call has performed so far

vars == <<unsafe, header, private_key, aes_key, request, closed, sock_open,
          broken, wire, pc, loc, ret, ops, hs, key_uses, established, closes, sent, io>>

\* ------------------------------------------------------------------ values
\* Key material.  generate_key_pair gives each Session its own pair; the
\* public key of s is named by s.  The derived key depends on both key pairs
\* and on the salt, and not on which side derives it.
PubKey(s) == s
NoKey == [pair |-> {}, salt |-> "None"]
SharedKey(own, remote_pub, salt) == [pair |-> {own, remote_pub}, salt |-> salt]

NoRequest == [present |-> FALSE, peer |-> "None", aes_key |-> NoKey]

\* Packets.  One record shape for all of them: a and b carry strings (header,
\* public key, salt, plaintext), n the status code, k the encryption key.
Pkt(type, a, b, n, k) == [type |-> type, a |-> a, b |-> b, n |-> n, k |-> k]
HeaderPkt(h) == Pkt("HDR", h, "None", 0, NoKey)
SaltedPkt(pub, salt) == Pkt("OKE_SALT", pub, salt, 0, NoKey)
CompletionPkt(pub) == Pkt("OKE", pub, "None", 0, NoKey)
OSCPkt(code) == Pkt("OSC", "None", "None", code, NoKey)
OEDPkt(key, data) == Pkt("OED", data, "None", 0, key)

NoLoc == [data |-> NoData, code |-> 0, flag |-> 0, salt |-> "None", hdr |-> NoHeader]
NoRet == [op |-> "none", kind |-> "none", data |-> NoData, code |-> 0, flag |-> 0]
Returned(op, kind) == [op |-> op, kind |-> kind, data |-> NoData, code |-> 0, flag |-> 0]
Response(content, status_code, flag) ==
    [op |-> "recv", kind |-> "response", data |-> content, code |-> status_code, flag |-> flag]

\* Socket operations of a call, in the order they were performed: "w" a
\* write that succeeded, "r" a read that returned a packet, "peer_addr",
\* "close".
NoPkt == Pkt("None", "None", "None", 0, NoKey)
NoIo == [call |-> "none", ops |-> <<>>]
SockOp(kind, pkt) == [kind |-> kind, pkt |-> pkt]

\* ------------------------------------------------------------------ Socket
\* A write fails on a socket that was shut down or whose transport failed.
CanWrite(s) == sock_open[s] /\ ~broken
\* A write waits while the peer's receive buffer is full.
WriteBlocked(s) == CanWrite(s) /\ sock_open[Peer(s)] /\ Len(wire[Peer(s)]) >= MaxWire
\* What a successful write leaves on the wire; bytes sent to a peer that has
\* shut its socket down are dropped.
Delivered(s, pkt) ==
    IF sock_open[Peer(s)] THEN [wire EXCEPT ![Peer(s)] = Append(@, pkt)] ELSE wire
\* A read fails on a socket that was shut down, on a failed transport, and at
\* end of stream (nothing buffered and the peer has shut down).
ReadFails(s) == ~sock_open[s] \/ broken \/ (wire[s] = <<>> /\ ~sock_open[Peer(s)])
\* A read waits while nothing is buffered.
ReadBlocked(s) == ~ReadFails(s) /\ wire[s] = <<>>
Consumed(s) == [wire EXCEPT ![s] = Tail(@)]
\* Socket::close shuts the socket down; what was buffered for it is lost.
ShutDown(s) ==
    /\ sock_open' = [sock_open EXCEPT ![s] = FALSE]
    /\ wire' = [wire EXCEPT ![s] = <<>>]
    /\ sent' = [sent EXCEPT ![Peer(s)] = <<>>]

\* Mutant: the parser accepts whatever it is given.
ValidHeader_Any(h) == TRUE
\* OblivionRequest::new accepts a well-formed header line only.
ValidHeader(h) == h = GoodHeader

\* ------------------------------------------------------------- call frames
Idle(s) == \A t \in Tasks : pc[s][t] = "idle"
HandshakePcs == {"fh_header", "fh_salt", "fh_fin", "sh_peer", "sh_header", "sh_salt", "sh_fin"}
\* handshake takes &mut self: no other call on the Session overlaps it.
InHandshake(s) == \E t \in Tasks : pc[s][t] \in HandshakePcs
CanCall(s, t) == pc[s][t] = "idle" /\ ~InHandshake(s)
\* Fewer than n calls have been made.
Within(n) == ops["ini"] + ops["rsp"] < n
Goto(s, t, l) == pc' = [pc EXCEPT ![s][t] = l]
Call(s) == ops' = [ops EXCEPT ![s] = @ + 1]
\* A call that goes on to its first await: the task's previous result is gone.
Enter(s, t, l) ==
    /\ pc' = [pc EXCEPT ![s][t] = l]
    /\ ret' = [ret EXCEPT ![s][t] = NoRet]
Return(s, t, r) ==
    /\ pc' = [pc EXCEPT ![s][t] = "idle"]
    /\ loc' = [loc EXCEPT ![s][t] = NoLoc]
    /\ ret' = [ret EXCEPT ![s][t] = r]
\* Task t starts the call named c on Session s.
Began(s, t, c) == io' = [io EXCEPT ![s][t] = [call |-> c, ops |-> <<>>]]
\* The call of task t performs a socket operation.
Did(s, t, kind, pkt) == io' = [io EXCEPT ![s][t].ops = Append(@, SockOp(kind, pkt))]

Init ==
    /\ unsafe \in BOOLEAN
    /\ header \in {[s \in Sessions |-> IF s = "ini" THEN h ELSE NoHeader] : h \in Headers}
    /\ private_key = [s \in Sessions |-> TRUE]
    /\ aes_key = [s \in Sessions |-> NoKey]
    /\ request = [s \in Sessions |-> NoRequest]
    /\ closed = [s \in Sessions |-> FALSE]
    /\ sock_open = [s \in Sessions |-> TRUE]
    /\ broken = FALSE
    /\ wire = [s \in Sessions |-> <<>>]
    /\ pc = [s \in Sessions |-> [t \in Tasks |-> "idle"]]
    /\ loc = [s \in Sessions |-> [t \in Tasks |-> NoLoc]]
    /\ ret = [s \in Sessions |-> [t \in Tasks |-> NoRet]]
    /\ ops = [s \in Sessions |-> 0]
    /\ hs = [s \in Sessions |-> "none"]
    /\ key_uses = [s \in Sessions |-> 0]
    /\ established = [s \in Sessions |-> FALSE]
    /\ closes = [s \in Sessions |-> 0]
    /\ sent = [s \in Sessions |-> <<>>]
    /\ io = [s \in Sessions |-> [t \in Tasks |-> NoIo]]

\* ------------------------------------------------------------ key exchange
\* OKE::new(private key, public key).  The default build moves the private key
\* out of the Session with Option::take, so a later exchange is handed None
\* and cannot be built; the "unsafe" build lends a reference to it.
OkeNewFails(s) == ~unsafe /\ ~private_key[s]
OkeNew(s) ==
    /\ private_key' = [private_key EXCEPT ![s] = IF unsafe THEN @ ELSE FALSE]
    /\ key_uses' = [key_uses EXCEPT ![s] = @ + 1]
\* Mutant: first_hand reads with from_stream, which takes a bare public key.
FirstHandExpects_Bare == "OKE"
\* What first_hand reads after its header: from_stream_with_salt takes the
\* peer's public key with its salt.
FirstHandExpects == "OKE_SALT"
\* Mutant: first_hand derives with the salt OKE::new drew for itself and
\* ignores the one that came with the peer's public key.
FirstHandKey_OwnSalt(s, pkt) == SharedKey(PubKey(s), pkt.a, "s1")
\* The key first_hand stores: derived from the peer's public key and the
\* salt that came with it.
FirstHandKey(s, pkt) == SharedKey(PubKey(s), pkt.a, pkt.b)
\* The key second_hand stores: derived from the peer's public key and the
\* salt this side generated and sent.
SecondHandKey(s, t, pkt) == SharedKey(PubKey(s), pkt.a, loc[s][t].salt)

\* ---------------------------------------------------------------- handshake
\* Mutant: every flag but 0 runs second_hand.
Dispatch_Lax(flag) == IF flag = 0 THEN "first_hand" ELSE "second_hand"
\* The match of handshake(flag).
Dispatch(flag) ==
    IF flag = 0 THEN "first_hand" ELSE IF flag = 1 THEN "second_hand" ELSE "unknown"

HandshakeFailed(s, t, role) ==
    /\ Return(s, t, Returned("handshake", "error"))
    /\ hs' = [hs EXCEPT ![s] = IF role = 0 THEN "err0" ELSE "err1"]

\* handshake(flag) up to its first await.
HandshakeCall(s, t, flag) ==
    /\ Idle(s)
    /\ Call(s)
    /\ Began(s, t, Dispatch(flag))
    /\ IF Dispatch(flag) = "unknown"
       THEN /\ Return(s, t, Returned("handshake", "UnknownFlag"))
            /\ UNCHANGED hs
       ELSE IF Dispatch(flag) = "first_hand" /\ header[s] = NoHeader
       THEN \* self.header.as_ref().unwrap() on None
            /\ Return(s, t, Returned("handshake", "panic"))
            /\ hs' = [hs EXCEPT ![s] = "err0"]
       ELSE /\ Enter(s, t, IF Dispatch(flag) = "first_hand" THEN "fh_header" ELSE "sh_peer")
            /\ hs' = [hs EXCEPT ![s] = IF Dispatch(flag) = "first_hand" THEN "run0" ELSE "run1"]
            /\ UNCHANGED loc
    /\ UNCHANGED <<unsafe, header, private_key, aes_key, request, closed, sock_open,
                   broken, wire, key_uses, established, closes, sent>>

\* first_hand: socket.send(length + header), then OKE::new.
FirstHandHeader(s, t) ==
    /\ pc[s][t] = "fh_header"
    /\ ~WriteBlocked(s)
    /\ IF ~CanWrite(s)
       THEN /\ HandshakeFailed(s, t, 0)
            /\ UNCHANGED <<wire, private_key, key_uses, io>>
       ELSE /\ wire' = Delivered(s, HeaderPkt(header[s]))
            /\ Did(s, t, "w", HeaderPkt(header[s]))
            /\ IF OkeNewFails(s)
               THEN /\ HandshakeFailed(s, t, 0)
                    /\ UNCHANGED <<private_key, key_uses>>
               ELSE /\ OkeNew(s)
                    /\ Goto(s, t, "fh_salt")
                    /\ UNCHANGED <<loc, ret, hs>>
    /\ UNCHANGED <<unsafe, header, aes_key, request, closed, sock_open, broken,
                   ops, established, closes, sent>>

\* first_hand: oke.from_stream_with_salt, then self.aes_key = Some(..).
FirstHandSalt(s, t) ==
    /\ pc[s][t] = "fh_salt"
    /\ ~ReadBlocked(s)
    /\ IF ReadFails(s)
       THEN /\ HandshakeFailed(s, t, 0)
            /\ UNCHANGED <<wire, aes_key, io>>
       ELSE /\ wire' = Consumed(s)
            /\ Did(s, t, "r", Head(wire[s]))
            /\ IF Head(wire[s]).type # FirstHandExpects
               THEN /\ HandshakeFailed(s, t, 0)
                    /\ UNCHANGED aes_key
               ELSE /\ aes_key' = [aes_key EXCEPT ![s] = FirstHandKey(s, Head(wire[s]))]
                    /\ Goto(s, t, "fh_fin")
                    /\ UNCHANGED <<loc, ret, hs>>
    /\ UNCHANGED <<unsafe, header, private_key, request, closed, sock_open, broken,
                   ops, key_uses, established, closes, sent>>

\* first_hand: oke.to_stream, then Ok(()).
FirstHandFin(s, t) ==
    /\ pc[s][t] = "fh_fin"
    /\ ~WriteBlocked(s)
    /\ IF ~CanWrite(s)
       THEN /\ HandshakeFailed(s, t, 0)
            /\ UNCHANGED <<wire, established, io>>
       ELSE /\ wire' = Delivered(s, CompletionPkt(PubKey(s)))
            /\ Did(s, t, "w", CompletionPkt(PubKey(s)))
            /\ Return(s, t, Returned("handshake", "ok"))
            /\ hs' = [hs EXCEPT ![s] = "ok0"]
            /\ established' = [established EXCEPT ![s] = TRUE]
    /\ UNCHANGED <<unsafe, header, private_key, aes_key, request, closed, sock_open,
                   broken, ops, key_uses, closes, sent>>

\* second_hand: socket.peer_addr.
SecondHandPeer(s, t) ==
    /\ pc[s][t] = "sh_peer"
    /\ IF ~CanWrite(s)
       THEN /\ HandshakeFailed(s, t, 1)
            /\ UNCHANGED io
       ELSE /\ Goto(s, t, "sh_header")
            /\ Did(s, t, "peer_addr", NoPkt)
            /\ UNCHANGED <<loc, ret, hs>>
    /\ UNCHANGED <<unsafe, header, private_key, aes_key, request, closed, sock_open,
                   broken, wire, ops, key_uses, established, closes, sent>>

\* second_hand: recv_usize and recv_str, OblivionRequest::new, then OKE::new
\* (which draws the salt).
SecondHandHeader(s, t) ==
    /\ pc[s][t] = "sh_header"
    /\ ~ReadBlocked(s)
    /\ IF ReadFails(s)
       THEN /\ HandshakeFailed(s, t, 1)
            /\ UNCHANGED <<wire, private_key, key_uses, io>>
       ELSE /\ wire' = Consumed(s)
            /\ Did(s, t, "r", Head(wire[s]))
            /\ IF \/ Head(wire[s]).type # "HDR"
                  \/ ~ValidHeader(Head(wire[s]).a)
                  \/ OkeNewFails(s)
               THEN /\ HandshakeFailed(s, t, 1)
                    /\ UNCHANGED <<private_key, key_uses>>
               ELSE /\ OkeNew(s)
                    /\ \E salt \in Salts :
                         loc' = [loc EXCEPT ![s][t].salt = salt,
                                            ![s][t].hdr = Head(wire[s]).a]
                    /\ Goto(s, t, "sh_salt")
                    /\ UNCHANGED <<ret, hs>>
    /\ UNCHANGED <<unsafe, header, aes_key, request, closed, sock_open, broken,
                   ops, established, closes, sent>>

\* second_hand: oke.to_stream_with_salt.
SecondHandSalt(s, t) ==
    /\ pc[s][t] = "sh_salt"
    /\ ~WriteBlocked(s)
    /\ IF ~CanWrite(s)
       THEN /\ HandshakeFailed(s, t, 1)
            /\ UNCHANGED <<wire, io>>
       ELSE /\ wire' = Delivered(s, SaltedPkt(PubKey(s), loc[s][t].salt))
            /\ Did(s, t, "w", SaltedPkt(PubKey(s), loc[s][t].salt))
            /\ Goto(s, t, "sh_fin")
            /\ UNCHANGED <<loc, ret, hs>>
    /\ UNCHANGED <<unsafe, header, private_key, aes_key, request, closed, sock_open,
                   broken, ops, key_uses, established, closes, sent>>

\* second_hand: oke.from_stream, then the stores of lines 110-114 and Ok(()).
SecondHandFin(s, t) ==
    /\ pc[s][t] = "sh_fin"
    /\ ~ReadBlocked(s)
    /\ IF ReadFails(s)
       THEN /\ HandshakeFailed(s, t, 1)
            /\ UNCHANGED <<wire, aes_key, request, header, established, io>>
       ELSE /\ wire' = Consumed(s)
            /\ Did(s, t, "r", Head(wire[s]))
            /\ IF Head(wire[s]).type # "OKE"
               THEN /\ HandshakeFailed(s, t, 1)
                    /\ UNCHANGED <<aes_key, request, header, established>>
               ELSE /\ aes_key' = [aes_key EXCEPT ![s] = SecondHandKey(s, t, Head(wire[s]))]
                    /\ request' = [request EXCEPT ![s] =
                          [present |-> TRUE, peer |-> Peer(s),
                           aes_key |-> SecondHandKey(s, t, Head(wire[s]))]]
                    /\ header' = [header EXCEPT ![s] = loc[s][t].hdr]
                    /\ Return(s, t, Returned("handshake", "ok"))
                    /\ hs' = [hs EXCEPT ![s] = "ok1"]
                    /\ established' = [established EXCEPT ![s] = TRUE]
    /\ UNCHANGED <<unsafe, private_key, closed, sock_open, broken,
                   ops, key_uses, closes, sent>>

\* --------------------------------------------------------------------- send
\* Mutant: send and recv go ahead whatever the flag says.
Refused_Never(s) == FALSE
\* The guard of send and recv: self.closed().await.
Refused(s) == closed[s]

\* Mutant: send closes the frame with another marker 0.
StatusMarker_Zero(s, t) == OSCPkt(0)
\* The marker send writes last: OSC::from_u32(status_code).
StatusMarker(s, t) == OSCPkt(loc[s][t].code)

\* send(data, status_code) up to its first socket write.
SendCall(s, t, data, code) ==
    /\ CanCall(s, t)
    /\ Call(s)
    /\ Began(s, t, "send")
    /\ IF Refused(s)
       THEN Return(s, t, Returned("send", "ConnectionClosed"))
       ELSE /\ Enter(s, t, "send_start")
            /\ loc' = [loc EXCEPT ![s][t].data = data, ![s][t].code = code]
    /\ UNCHANGED <<unsafe, header, private_key, aes_key, request, closed, sock_open,
                   broken, wire, hs, key_uses, established, closes, sent>>

\* send: OSC::from_u32(0).to_stream.
SendStart(s, t) ==
    /\ pc[s][t] = "send_start"
    /\ ~WriteBlocked(s)
    /\ IF ~CanWrite(s)
       THEN /\ Return(s, t, Returned("send", "error"))
            /\ UNCHANGED <<wire, io>>
       ELSE /\ wire' = Delivered(s, OSCPkt(0))
            /\ Did(s, t, "w", OSCPkt(0))
            /\ Goto(s, t, "send_data")
            /\ UNCHANGED <<loc, ret>>
    /\ UNCHANGED <<unsafe, header, private_key, aes_key, request, closed, sock_open,
                   broken, ops, hs, key_uses, established, closes, sent>>

\* send: OED::new(aes_key).from_bytes(data)?.to_stream.  Without a key there
\* is nothing to encrypt with and from_bytes fails.
SendData(s, t) ==
    /\ pc[s][t] = "send_data"
    /\ aes_key[s] = NoKey \/ ~WriteBlocked(s)
    /\ IF aes_key[s] = NoKey \/ ~CanWrite(s)
       THEN /\ Return(s, t, Returned("send", "error"))
            /\ UNCHANGED <<wire, io>>
       ELSE /\ wire' = Delivered(s, OEDPkt(aes_key[s], loc[s][t].data))
            /\ Did(s, t, "w", OEDPkt(aes_key[s], loc[s][t].data))
            /\ Goto(s, t, "send_status")
            /\ UNCHANGED <<loc, ret>>
    /\ UNCHANGED <<unsafe, header, private_key, aes_key, request, closed, sock_open,
                   broken, ops, hs, key_uses, established, closes, sent>>

\* send: OSC::from_u32(status_code).to_stream, then Ok(()).
SendStatus(s, t) ==
    /\ pc[s][t] = "send_status"
    /\ ~WriteBlocked(s)
    /\ IF ~CanWrite(s)
       THEN /\ Return(s, t, Returned("send", "error"))
            /\ UNCHANGED <<wire, sent, io>>
       ELSE /\ wire' = Delivered(s, StatusMarker(s, t))
            /\ Did(s, t, "w", StatusMarker(s, t))
            /\ sent' = [sent EXCEPT ![s] =
                  IF sock_open[Peer(s)]
                  THEN Append(@, <<loc[s][t].data, loc[s][t].code>>) ELSE @]
            /\ Return(s, t, Returned("send", "ok"))
    /\ UNCHANGED <<unsafe, header, private_key, aes_key, request, closed, sock_open,
                   broken, ops, hs, key_uses, established, closes>>

\* --------------------------------------------------------------------- recv
\* Mutant: no flag is terminal.
Terminal_Never(flag) == FALSE
\* The test of line 167.
Terminal(flag) == flag = 1
\* Socket::close on a socket that is already shut down, or whose transport
\* failed, may report an error.
CloseResults(s) == IF sock_open[s] /\ ~broken THEN {"ok"} ELSE {"ok", "error"}
\* The peer's oldest message counts as received.
Received(s) ==
    sent' = [sent EXCEPT ![Peer(s)] = IF @ = <<>> THEN @ ELSE Tail(@)]

\* recv() up to its first socket read.
RecvCall(s, t) ==
    /\ CanCall(s, t)
    /\ Call(s)
    /\ Began(s, t, "recv")
    /\ IF Refused(s)
       THEN Return(s, t, Returned("recv", "ConnectionClosed"))
       ELSE /\ Enter(s, t, "recv_flag")
            /\ UNCHANGED loc
    /\ UNCHANGED <<unsafe, header, private_key, aes_key, request, closed, sock_open,
                   broken, wire, hs, key_uses, established, closes, sent>>

\* recv: flag = OSC::from_stream.
RecvFlag(s, t) ==
    /\ pc[s][t] = "recv_flag"
    /\ ~ReadBlocked(s)
    /\ IF ReadFails(s)
       THEN /\ Return(s, t, Returned("recv", "error"))
            /\ UNCHANGED <<wire, io>>
       ELSE /\ wire' = Consumed(s)
            /\ Did(s, t, "r", Head(wire[s]))
            /\ IF Head(wire[s]).type # "OSC"
               THEN Return(s, t, Returned("recv", "error"))
               ELSE /\ loc' = [loc EXCEPT ![s][t].flag = Head(wire[s]).n]
                    /\ Goto(s, t, "recv_data")
                    /\ UNCHANGED ret
    /\ UNCHANGED <<unsafe, header, private_key, aes_key, request, closed, sock_open,
                   broken, ops, hs, key_uses, established, closes, sent>>

\* recv: content = OED::new(aes_key).from_stream.get_data.  Decryption fails
\* without a key and under another key than the one that encrypted.
RecvData(s, t) ==
    /\ pc[s][t] = "recv_data"
    /\ ~ReadBlocked(s)
    /\ IF ReadFails(s)
       THEN /\ Return(s, t, Returned("recv", "error"))
            /\ UNCHANGED <<wire, io>>
       ELSE /\ wire' = Consumed(s)
            /\ Did(s, t, "r", Head(wire[s]))
            /\ IF \/ Head(wire[s]).type # "OED"
                  \/ aes_key[s] = NoKey
                  \/ Head(wire[s]).k # aes_key[s]
               THEN Return(s, t, Returned("recv", "error"))
               ELSE /\ loc' = [loc EXCEPT ![s][t].data = Head(wire[s]).a]
                    /\ Goto(s, t, "recv_status")
                    /\ UNCHANGED ret
    /\ UNCHANGED <<unsafe, header, private_key, aes_key, request, closed, sock_open,
                   broken, ops, hs, key_uses, established, closes, sent>>

\* recv: status_code = OSC::from_stream, Response::new, and Ok(response)
\* unless the flag is terminal.
RecvStatus(s, t) ==
    /\ pc[s][t] = "recv_status"
    /\ ~ReadBlocked(s)
    /\ IF ReadFails(s)
       THEN /\ Return(s, t, Returned("recv", "error"))
            /\ UNCHANGED <<wire, sent, io>>
       ELSE /\ wire' = Consumed(s)
            /\ Did(s, t, "r", Head(wire[s]))
            /\ IF Head(wire[s]).type # "OSC"
               THEN /\ Return(s, t, Returned("recv", "error"))
                    /\ UNCHANGED sent
               ELSE IF Terminal(loc[s][t].flag)
               THEN /\ loc' = [loc EXCEPT ![s][t].code = Head(wire[s]).n]
                    /\ Goto(s, t, "recv_close")
                    /\ UNCHANGED <<ret, sent>>
               ELSE /\ Return(s, t, Response(loc[s][t].data, Head(wire[s]).n, loc[s][t].flag))
                    /\ Received(s)
    /\ UNCHANGED <<unsafe, header, private_key, aes_key, request, closed, sock_open,
                   broken, ops, hs, key_uses, established, closes>>

\* recv: socket.close().await? of line 168, then Ok(response).
RecvClose(s, t) ==
    /\ pc[s][t] = "recv_close"
    /\ \E r \in CloseResults(s) :
         IF r = "ok"
         THEN Return(s, t, Response(loc[s][t].data, loc[s][t].code, loc[s][t].flag))
         ELSE Return(s, t, Returned("recv", "error"))
    /\ ShutDown(s)
    /\ Did(s, t, "close", NoPkt)
    /\ UNCHANGED <<unsafe, header, private_key, aes_key, request, closed,
                   broken, ops, hs, key_uses, established, closes>>

\* -------------------------------------------------------------------- close
\* Mutant: close sets the flag and closes the socket every time.
CloseNeeded_Always(s) == TRUE
\* The test of line 174: !self.closed().await.
CloseNeeded(s) == ~closed[s]

\* close() up to the write lock, or to Ok(()) when already closed.
CloseCall(s, t) ==
    /\ CanCall(s, t)
    /\ Call(s)
    /\ Began(s, t, "close")
    /\ IF CloseNeeded(s)
       THEN /\ Enter(s, t, "close_set")
            /\ UNCHANGED <<loc, closes>>
       ELSE /\ Return(s, t, Returned("close", "ok"))
            /\ closes' = [closes EXCEPT ![s] = @ + 1]
    /\ UNCHANGED <<unsafe, header, private_key, aes_key, request, closed, sock_open,
                   broken, wire, hs, key_uses, established, sent>>

\* close: *self.closed.write().await = true.
CloseSet(s, t) ==
    /\ pc[s][t] = "close_set"
    /\ closed' = [closed EXCEPT ![s] = TRUE]
    /\ Goto(s, t, "close_socket")
    /\ UNCHANGED <<unsafe, header, private_key, aes_key, request, sock_open,
                   broken, wire, loc, ret, ops, hs, key_uses, established, closes, sent, io>>

\* close: self.socket.close().await, whose result close returns.
CloseSocket(s, t) ==
    /\ pc[s][t] = "close_socket"
    /\ \E r \in CloseResults(s) : Return(s, t, Returned("close", r))
    /\ ShutDown(s)
    /\ Did(s, t, "close", NoPkt)
    /\ closes' = [closes EXCEPT ![s] = @ + 1]
    /\ UNCHANGED <<unsafe, header, private_key, aes_key, request, closed,
                   broken, ops, hs, key_uses, established>>

\* -------------------------------------------------------------- environment
\* The application holding Session s writes a frame through the public socket
\* field itself, as a peer built on another implementation does to end the
\* conversation: first marker 1, the body encrypted with the key it holds
\* (a body the receiver cannot decrypt when it holds none), the status marker.
RawTerminal(s, data, code) ==
    /\ Idle(s)
    /\ Call(s)
    /\ CanWrite(s) /\ sock_open[Peer(s)]
    /\ Len(wire[Peer(s)]) + 3 <= MaxWire
    /\ wire' = [wire EXCEPT ![Peer(s)] =
                  @ \o <<OSCPkt(1), OEDPkt(aes_key[s], data), OSCPkt(code)>>]
    /\ UNCHANGED <<unsafe, header, private_key, aes_key, request, closed, sock_open,
                   broken, pc, loc, ret, hs, key_uses, established, closes, sent, io>>

\* The transport fails: from now on every read and write on both sockets
\* fails, and what was in flight is lost.
TransportFail ==
    /\ ~broken
    /\ broken' = TRUE
    /\ wire' = [s \in Sessions |-> <<>>]
    /\ sent' = [s \in Sessions |-> <<>>]
    /\ UNCHANGED <<unsafe, header, private_key, aes_key, request, closed, sock_open,
                   pc, loc, ret, ops, hs, key_uses, established, closes, io>>

\* ----------------------------------------------------------- specifications
\* One caller per Session, free to make any call at any time, over a
\* transport that may fail; at most n calls in all.
Calls(s, t, n) ==
    \/ \E flag \in HandshakeFlags : Within(n) /\ HandshakeCall(s, t, flag)
    \/ \E m \in Messages : Within(n) /\ SendCall(s, t, m[1], m[2])
    \/ Within(n) /\ RecvCall(s, t)
    \/ Within(n) /\ CloseCall(s, t)

Awaits(s, t) ==
    \/ FirstHandHeader(s, t)
    \/ FirstHandSalt(s, t)
    \/ FirstHandFin(s, t)
    \/ SecondHandPeer(s, t)
    \/ SecondHandHeader(s, t)
    \/ SecondHandSalt(s, t)
    \/ SecondHandFin(s, t)
    \/ SendStart(s, t)
    \/ SendData(s, t)
    \/ SendStatus(s, t)
    \/ RecvFlag(s, t)
    \/ RecvData(s, t)
    \/ RecvStatus(s, t)
    \/ RecvClose(s, t)
    \/ CloseSet(s, t)
    \/ CloseSocket(s, t)

Next ==
    \/ \E s \in Sessions : Calls(s, "t1", MaxOps)
    \/ \E s \in Sessions : Awaits(s, "t1")
    \/ \E s \in Sessions, m \in Messages : Within(MaxOps) /\ RawTerminal(s, m[1], m[2])
    \/ TransportFail

Spec == Init /\ [][Next]_vars

\* A pair of callers that follow the protocol over a reliable transport: the
\* Session built with a header starts with handshake(0), the other one with
\* handshake(1); each makes its calls one after the other, shakes hands once,
\* sends and receives only once its handshake has returned success, and may
\* close once its handshake has returned.
Role(s) == IF s = "ini" THEN 0 ELSE 1
Established(s) == hs[s] \in {"ok0", "ok1"}
HandshakeOver(s) == hs[s] \in {"ok0", "ok1", "err0", "err1"}

PairHandshake(s) ==
    /\ hs[s] = "none"
    /\ HandshakeCall(s, "t1", Role(s))

PairHandshakeSteps(s) ==
    \/ FirstHandHeader(s, "t1")
    \/ FirstHandSalt(s, "t1")
    \/ FirstHandFin(s, "t1")
    \/ SecondHandPeer(s, "t1")
    \/ SecondHandHeader(s, "t1")
    \/ SecondHandSalt(s, "t1")
    \/ SecondHandFin(s, "t1")

PairCalls(s) ==
    \/ \E m \in Messages :
         Within(MaxPairOps) /\ Established(s) /\ SendCall(s, "t1", m[1], m[2])
    \/ Within(MaxPairOps) /\ Established(s) /\ RecvCall(s, "t1")
    \/ Within(MaxPairOps) /\ HandshakeOver(s) /\ CloseCall(s, "t1")

PairAwaits(s) ==
    \/ SendStart(s, "t1")
    \/ SendData(s, "t1")
    \/ SendStatus(s, "t1")
    \/ RecvFlag(s, "t1")
    \/ RecvData(s, "t1")
    \/ RecvStatus(s, "t1")
    \/ CloseSet(s, "t1")
    \/ CloseSocket(s, "t1")

PairNext ==
    \/ \E s \in Sessions : PairHandshake(s)
    \/ \E s \in Sessions : PairHandshakeSteps(s)
    \/ \E s \in Sessions : PairCalls(s)
    \/ \E s \in Sessions : PairAwaits(s)

\* The runtime polls every task that can make progress, and both callers do
\* call handshake.
PairFairness ==
    \A s \in Sessions : WF_vars(PairHandshake(s) \/ PairHandshakeSteps(s))

PairSpec == Init /\ [][PairNext]_vars /\ PairFairness

\* One Session shared by two tasks (send, recv and close take &self, so the
\* tasks' calls overlap at the awaits), its peer driven by one task, over a
\* reliable transport.  Each side shakes hands once, in its role, and calls
\* send, recv and close only once its handshake has returned success.
Callers(s) == IF s = "ini" THEN Tasks ELSE {"t1"}

ConcCalls(s, t) ==
    \/ \E m \in Messages :
         Within(MaxConcOps) /\ Established(s) /\ SendCall(s, t, m[1], m[2])
    \/ Within(MaxConcOps) /\ Established(s) /\ RecvCall(s, t)
    \/ Within(MaxConcOps) /\ Established(s) /\ CloseCall(s, t)

ConcAwaits(s, t) ==
    \/ SendStart(s, t)
    \/ SendData(s, t)
    \/ SendStatus(s, t)
    \/ RecvFlag(s, t)
    \/ RecvData(s, t)
    \/ RecvStatus(s, t)
    \/ RecvClose(s, t)
    \/ CloseSet(s, t)
    \/ CloseSocket(s, t)

ConcNext ==
    \/ \E s \in Sessions : PairHandshake(s)
    \/ \E s \in Sessions : PairHandshakeSteps(s)
    \/ \E s \in Sessions : \E t \in Callers(s) : ConcCalls(s, t)
    \/ \E s \in Sessions : \E t \in Callers(s) : ConcAwaits(s, t)

ConcSpec == Init /\ [][ConcNext]_vars

\* ------------------------------------------------------------------- claims
RecvPcs == {"recv_flag", "recv_data", "recv_status", "recv_close"}
BothShaken == hs["ini"] = "ok0" /\ hs["rsp"] = "ok1"
\* Task t of Session s returns from recv in this step.
RecvReturns(s, t) == pc[s][t] \in RecvPcs /\ pc'[s][t] = "idle"

\* C1 as stated: whatever header the initiator was built with, handshake(0) on
\* it and handshake(1) on its peer both eventually return success.
C1_AnyHeaderCompletes == <>BothShaken

\* C1, amended: when the initiator was built with a header the responder's
\* parser accepts, handshake(0) on it and handshake(1) on its peer both
\* eventually return success over a reliable transport under fair scheduling.
C1_HandshakeCompletes == ValidHeader(header["ini"]) => <>BothShaken

C1_Witness ==
    /\ ret["ini"]["t1"] = Returned("handshake", "ok")
    /\ ret["rsp"]["t1"] = Returned("handshake", "ok")
    /\ wire = [s \in Sessions |-> <<>>]

\* C2: whenever the latest handshake(0) on one Session and the latest
\* handshake(1) on its peer have both returned success, both Sessions hold
\* the same symmetric key.
C2_SameKey ==
    \A s \in Sessions :
        hs[s] = "ok0" /\ hs[Peer(s)] = "ok1" =>
            aes_key[s] # NoKey /\ aes_key[s] = aes_key[Peer(s)]

C2_Witness ==
    /\ BothShaken
    /\ aes_key["ini"] = SharedKey("rsp", "ini", "s2")
    /\ request["rsp"].aes_key = aes_key["ini"]

\* C3: between callers that follow the protocol, every recv that returns a
\* response returns the payload and the status code of the peer's oldest send
\* not yet received, and a recv fails only at the end of the stream.
C3_RoundTrip ==
    [][\A s \in Sessions :
         RecvReturns(s, "t1") =>
            IF ret'[s]["t1"].kind = "response"
            THEN /\ sent[Peer(s)] # <<>>
                 /\ ret'[s]["t1"].data = Head(sent[Peer(s)])[1]
                 /\ ret'[s]["t1"].code = Head(sent[Peer(s)])[2]
            ELSE wire[s] = <<>> /\ ~sock_open[Peer(s)]]_vars

\* Two messages were sent one after the other and the second one has just
\* been received.
C3_Witness ==
    /\ ops["ini"] = 3 /\ ops["rsp"] = 3
    /\ sent["ini"] = <<>> /\ wire["rsp"] = <<>>
    /\ ret["ini"]["t1"] = Returned("send", "ok")
    /\ ret["rsp"]["t1"] = Response("y", 1, 0)

\* C4: once a close() call on a Session has returned, closed() is true, and
\* every later close() call returns Ok at once.
C4_CloseIdempotent ==
    [][\A s \in Sessions :
         /\ closes'[s] > 0 => closed'[s]
         /\ closes[s] > 0 /\ CloseCall(s, "t1") =>
               /\ ret'[s]["t1"] = Returned("close", "ok")
               /\ pc'[s]["t1"] = "idle"
               /\ closed'[s]]_vars

C4_Witness ==
    \E s \in Sessions :
        closes[s] = 2 /\ closed[s] /\ ret[s]["t1"] = Returned("close", "ok")

\* C5: a send or recv called after a close() call has returned fails with
\* ConnectionClosed at once, and the step leaves the wire as it was.
C5_ClosedRefusesIO ==
    [][\A s \in Sessions :
         closes[s] > 0 =>
            /\ \A m \in Messages :
                  SendCall(s, "t1", m[1], m[2]) =>
                     /\ ret'[s]["t1"] = Returned("send", "ConnectionClosed")
                     /\ pc'[s]["t1"] = "idle"
                     /\ wire' = wire
            /\ RecvCall(s, "t1") =>
                  /\ ret'[s]["t1"] = Returned("recv", "ConnectionClosed")
                  /\ pc'[s]["t1"] = "idle"
                  /\ wire' = wire]_vars

C5_Witness ==
    \E s \in Sessions :
        /\ closes[s] > 0
        /\ ret[s]["t1"] = Returned("send", "ConnectionClosed")
        /\ wire[Peer(s)] = <<>>

\* C6: handshake(flag) with a flag other than 0 and 1 returns the unknown-flag
\* error at once; the step reads nothing, writes nothing and closes nothing.
C6_UnknownFlag ==
    [][\A s \in Sessions, flag \in HandshakeFlags \ {0, 1} :
         HandshakeCall(s, "t1", flag) =>
            /\ ret'[s]["t1"] = Returned("handshake", "UnknownFlag")
            /\ pc'[s]["t1"] = "idle"
            /\ wire' = wire
            /\ sock_open' = sock_open
            /\ closed' = closed]_vars

C6_Witness ==
    \E s \in Sessions :
        ret[s]["t1"] = Returned("handshake", "UnknownFlag") /\ hs[s] = "none"

\* C7 as stated: a recv that has read a first marker equal to 1 returns with
\* its socket closed.
C7_TerminalFlagClosesSocket ==
    [][\A s \in Sessions :
         RecvReturns(s, "t1") /\ pc[s]["t1"] # "recv_flag" /\ loc[s]["t1"].flag = 1
            => ~sock_open'[s]]_vars

\* C7, amended: a recv that returns a response whose flag is 1 returns with
\* its socket closed, and a closed socket stays closed; a recv that returns a
\* response with another flag, or an error before it has read all three
\* packets, leaves the socket as it was.
C7_TerminalResponseClosesSocket ==
    [][\A s \in Sessions :
         /\ RecvReturns(s, "t1") /\ ret'[s]["t1"].kind = "response" =>
               (sock_open'[s] <=> (sock_open[s] /\ ret'[s]["t1"].flag # 1))
         /\ pc[s]["t1"] \in RecvPcs \ {"recv_close"} /\ pc'[s]["t1"] # "recv_close" =>
               sock_open'[s] = sock_open[s]
         /\ sock_open'[s] => sock_open[s]]_vars

C7_Witness ==
    \E s \in Sessions :
        /\ ret[s]["t1"].kind = "response" /\ ret[s]["t1"].flag = 1
        /\ ~sock_open[s] /\ ~closed[s] /\ ~broken

\* C8: no Session's private key goes into more than one key exchange.
C8_PrivateKeyUsedOnce == \A s \in Sessions : key_uses[s] <= 1

\* C9: outside a running handshake, a Session holds a symmetric key only if
\* a handshake call on it has returned success.
C9_KeyOnlyAfterSuccess ==
    \A s \in Sessions :
        aes_key[s] # NoKey /\ hs[s] \notin {"run0", "run1"} => established[s]

\* C10: a Session that has closed its socket reports closed() = true.
C10_ClosedFlagTracksSocket == \A s \in Sessions : ~sock_open[s] => closed[s]

\* The socket operations of a call as "kind:packet type" strings.
Shape(o) == [i \in 1..Len(o) |-> <<o[i].kind, o[i].pkt.type>>]
IsPrefix(a, b) == Len(a) <= Len(b) /\ a = SubSeq(b, 1, Len(a))
\* The call task t made last on Session s.
LastCall(s, t) == io[s][t].call
LastOps(s, t) == io[s][t].ops
ReturnedOk(s, t) == pc[s][t] = "idle" /\ ret[s][t].kind \in {"ok", "response"}

C12_PeerHeaderSaltCompletion ==
    \A s \in Sessions :
        LastCall(s, "t1") = "second_hand" =>
            LET o == LastOps(s, "t1") IN
            /\ Len(o) <= 4
            /\ Len(o) >= 1 => o[1] = SockOp("peer_addr", NoPkt)
            /\ Len(o) >= 2 => o[2].kind = "r"
            /\ Len(o) >= 2 /\ ~(o[2].pkt.type = "HDR" /\ o[2].pkt.a = GoodHeader) =>
                  /\ Len(o) = 2
                  /\ pc[s]["t1"] = "idle"
                  /\ ret[s]["t1"] = Returned("handshake", "error")
            /\ Len(o) >= 3 => o[3] = SockOp("w", SaltedPkt(PubKey(s), o[3].pkt.b))
            /\ Len(o) = 4 => o[4].kind = "r"
            /\ ReturnedOk(s, "t1") => Len(o) = 4 /\ o[4].pkt.type = "OKE"

C12_Witness ==
    /\ LastCall("rsp", "t1") = "second_hand"
    /\ ReturnedOk("rsp", "t1")
    /\ Shape(LastOps("rsp", "t1")) =
          << <<"peer_addr", "None">>, <<"r", "HDR">>, <<"w", "OKE_SALT">>, <<"r", "OKE">> >>

\* C13: a send(payload, status_code) that returns success has performed
\* exactly three socket operations, all of them writes: a status marker 0,
\* the payload encrypted with the Session's symmetric key, and a status
\* marker status_code, in this order; a send never performs more than these.
C13_ThreeWrites ==
    [][\A s \in Sessions :
         /\ LastCall(s, "t1") = "send"
               /\ pc[s]["t1"] # "idle" /\ pc'[s]["t1"] = "idle"
               /\ ret'[s]["t1"] = Returned("send", "ok") =>
               /\ ~closed[s]
               /\ aes_key[s] # NoKey
               /\ io'[s]["t1"].ops =
                     << SockOp("w", OSCPkt(0)),
                        SockOp("w", OEDPkt(aes_key[s], loc[s]["t1"].data)),
                        SockOp("w", OSCPkt(loc[s]["t1"].code)) >>
         /\ LastCall(s, "t1") = "send" =>
               IsPrefix(Shape(LastOps(s, "t1")),
                        << <<"w", "OSC">>, <<"w", "OED">>, <<"w", "OSC">> >>)]_vars

C13_Witness ==
    \E s \in Sessions :
        /\ ret[s]["t1"] = Returned("send", "ok")
        /\ LastOps(s, "t1") =
              << SockOp("w", OSCPkt(0)),
                 SockOp("w", OEDPkt(aes_key[s], "x")),
                 SockOp("w", OSCPkt(200)) >>

\* C14: of the close() calls that tasks make on one Session, at most one
\* invokes the socket's close operation.
C14_SocketClosedOnce ==
    \A s \in Sessions :
        Cardinality({t \in Tasks : LastCall(s, t) = "close" /\ LastOps(s, t) # <<>>}) <= 1

SendPcs == {"send_start", "send_data", "send_status"}
\* Task t's send on Session s writes a packet in this step.
SendWrites(s, t) ==
    pc[s][t] \in SendPcs /\ Len(io'[s][t].ops) > Len(io[s][t].ops)
\* Task t's send on Session s has written some of its packets and not all.
MidMessage(s, t) == pc[s][t] \in {"send_data", "send_status"}

\* C15: no send writes a packet to the socket while another send on the
\* same Session has written a part of its three packets and not the rest.
C15_SendsContiguous ==
    [][\A s \in Sessions : \A t \in Tasks : \A u \in Tasks \ {t} :
         SendWrites(s, t) => ~MidMessage(s, u)]_vars

\* C16: in the steady state, after a handshake has returned success, a send
\* that has returned an error has written none of its packets to the socket.
C16_SendAllOrNothing ==
    \A s \in Sessions :
        /\ established[s]
        /\ LastCall(s, "t1") = "send"
        /\ pc[s]["t1"] = "idle"
        /\ ret[s]["t1"].kind \in {"error", "ConnectionClosed"}
        => LastOps(s, "t1") = <<>>

\* C17: whenever a Session's request metadata is present, the request's key
\* is the Session's symmetric key, the Session's header is present and the
\* request carries the peer's address.
C17_RequestMirrorsSession ==
    \A s \in Sessions :
        request[s].present =>
            /\ request[s].aes_key = aes_key[s]
            /\ header[s] # NoHeader
            /\ request[s].peer = Peer(s)

\* C18: a send or recv performs a socket operation on a Session only after
\* a handshake on that Session has returned success and set the key.
C18_HandshakeFirst ==
    \A s \in Sessions :
        LastCall(s, "t1") \in {"send", "recv"} /\ LastOps(s, "t1") # <<>> =>
            established[s] /\ aes_key[s] # NoKey

\* C19: no send writes a packet and no recv reads a packet in a state where
\* the Session's closed flag is true.
C19_NoPacketIoOnceClosed ==
    [][\A s \in Sessions : \A t \in Tasks :
         /\ pc[s][t] \in SendPcs \cup {"recv_flag", "recv_data", "recv_status"}
         /\ Len(io'[s][t].ops) > Len(io[s][t].ops)
         => ~closed[s]]_vars

\* C20: between peers that write only through send, every response recv
\* returns has flag 0 and no recv gets to close the socket.
C20_TerminalPathUnreachable ==
    \A s \in Sessions : \A t \in Tasks :
        /\ pc[s][t] # "recv_close"
        /\ ret[s][t].kind = "response" => ret[s][t].flag = 0

====
